---- MODULE Spec2Model ----
(***************************************************************************)
(* Model of the map-plotting utilities of ECTL_RD/ectl_plots_utilities.py  *)
(* (plot_airspace, plot_route, plot_trajectory) and of                     *)
(* OPDI/opdi_plots_utilities.py (plot_flight_trajectory_events).           *)
(*                                                                         *)
(* A drawing surface is a matplotlib Axes.  plot_route and plot_trajectory *)
(* keep a running bounding box on it in the attributes _xmin, _xmax,       *)
(* _ymin, _ymax and derive the axis limits, the basemap call and the ticks *)
(* from it.  plot_airspace derives its box from the current axis limits.   *)
(*                                                                         *)
(* Numbers.  Coordinates are Web-Mercator coordinates (the geometry after  *)
(* to_crs(epsg=3857)); the model reads them as exact reals, stored as      *)
(* integers in units of 1/Scale, so that the paddings 0.2 and 0.3 and the  *)
(* five steps of linspace(.., 6) are exact.  Floating-point rounding is    *)
(* not modelled.                                                           *)
(*                                                                         *)
(* Collaborators.  The Axes stores the limits, ticks and labels it is      *)
(* given and returns them unchanged (set_xlim refuses NaN); drawing a      *)
(* geometry does not move the stored limits.  LineString refuses exactly   *)
(* one coordinate and builds an empty geometry from none, whose            *)
(* total_bounds are NaN.                                                   *)
(***************************************************************************)
EXTENDS Integers, Sequences, FiniteSets, TLC

VARIABLES surf, nfigs, ncalls, last

vars == <<surf, nfigs, ncalls, last>>

\* ---------------------------------------------------------------- bounds
MaxCalls == 4

MaxSurfaces == 2

Surfaces == 1..MaxSurfaces

\* ------------------------------------------------------------- constants
\* np.linspace(.., 6): the number of ticks and labels on each axis
TickCount == 6

\* 1/Scale is the unit of every stored coordinate
Scale == 10 * (5 ^ MaxCalls)

\* padding fractions as <<numerator, denominator>>
PadAirspace == <<1, 5>>

PadRoute == <<1, 5>>

PadTrajectory == <<3, 10>>

PadEvents == <<1, 5>>

\* ---------------------------------------------------------------- values
\* a Python value held in ax._xmin ..: None, a float, or the float NaN
None == [t |-> "None", v |-> 0]

NaN == [t |-> "NaN", v |-> 0]

Num(n) == [t |-> "num", v |-> n]

IsNum(a) == a.t = "num"

\* Python's  b < a  on floats: false whenever one side is NaN
PyLess(b, a) == IsNum(a) /\ IsNum(b) /\ b.v < a.v

\* Python's min(a, b): a unless b < a
PyMin(a, b) == IF PyLess(b, a) THEN b ELSE a

\* Python's max(a, b): a unless b > a
PyMax(a, b) == IF PyLess(a, b) THEN b ELSE a

EmptyExtent == [xmin |-> None, xmax |-> None, ymin |-> None, ymax |-> None]

\* --------------------------------------------------------------- inputs
\* The rows of df_route / df_points handed to plot_route and
\* plot_trajectory, as the <<x, y>> coordinates of the projected geometry
\* (whole units).  Sorting by "Sequence Number" orders the rows and does not
\* change their bounding box.
RouteEmpty == <<>>

RouteOnePoint == <<<<3, 4>>>>

RouteA == <<<<0, 0>>, <<10, 5>>>>

RouteB == <<<<5, -2>>, <<15, 3>>>>

RoutePoint == <<<<3, 4>>, <<3, 4>>>>

RouteInputs == {RouteEmpty, RouteOnePoint, RouteA, RouteB, RoutePoint}

TrajectoryInputs == {RouteEmpty, RouteA, RouteB}

EventInputs == {RouteEmpty, RouteOnePoint, RouteB}

\* The rows of df_airspace: the vertices of airspace "A" (3 rows) and of
\* airspace "B" (2 rows).
AirspaceRows == << [id |-> "A", p |-> <<0, 0>>], [id |-> "A", p |-> <<10, 0>>],
                   [id |-> "A", p |-> <<10, 5>>], [id |-> "B", p |-> <<20, -5>>],
                   [id |-> "B", p |-> <<25, 8>>] >>

AirspaceInputs == {"", "A", "B"}

\* -------------------------------------------------------------- geometry
MinOf(S) == CHOOSE m \in S : \A e \in S : m <= e

MaxOf(S) == CHOOSE m \in S : \A e \in S : m >= e

Xs(pts) == {pts[i][1] : i \in 1..Len(pts)}

Ys(pts) == {pts[i][2] : i \in 1..Len(pts)}

\* GeoDataFrame.total_bounds of the one geometry built from pts:
\* (minx, miny, maxx, maxy), all NaN for an empty geometry
total_bounds(pts) ==
  IF Len(pts) = 0
  THEN [xmin |-> NaN, xmax |-> NaN, ymin |-> NaN, ymax |-> NaN]
  ELSE [xmin |-> Num(Scale * MinOf(Xs(pts))), xmax |-> Num(Scale * MaxOf(Xs(pts))),
        ymin |-> Num(Scale * MinOf(Ys(pts))), ymax |-> Num(Scale * MaxOf(Ys(pts)))]

IsBox(b) == IsNum(b.xmin) /\ IsNum(b.xmax) /\ IsNum(b.ymin) /\ IsNum(b.ymax)

\* LineString(zip(lon, lat)) raises for exactly one coordinate
LineStringRaises(pts) == Len(pts) = 1

\* df_airspace[df_airspace["Airspace ID"] == airspace_str], or all the rows
Subset(airspace_str) ==
  LET rows == IF airspace_str /= ""
              THEN SelectSeq(AirspaceRows, LAMBDA r : r.id = airspace_str)
              ELSE AirspaceRows
  IN [i \in 1..Len(rows) |-> rows[i].p]

\* ------------------------------------------------------------- the Axes
DefaultLim == <<0, Scale>>

\* the Axes of plt.subplots(): default limits (0.0, 1.0), nothing drawn, no
\* ticks set, no _xmin .. attributes.  merged is the set of feature boxes
\* the bounds update has merged into ext and lastop the last call that
\* returned normally (a history of the calls).
Subplots ==
  [live |-> TRUE, hasExt |-> FALSE, ext |-> EmptyExtent,
   xlim |-> DefaultLim, ylim |-> DefaultLim,
   xticks |-> <<>>, yticks |-> <<>>, xticklabels |-> <<>>, yticklabels |-> <<>>,
   basemap |-> <<>>, drawn |-> 0, title |-> "", merged |-> {}, lastop |-> "none"]

NoAxes == [Subplots EXCEPT !.live = FALSE]

\* a linspace that leaves the end point out (endpoint=False)
Linspace_open(lo, hi, n) == [i \in 1..n |-> lo + ((i - 1) * (hi - lo)) \div n]

\* np.linspace(lo, hi, n): lo + i * (hi - lo) / (n - 1), i = 0 .. n-1
Linspace(lo, hi, n) == [i \in 1..n |-> lo + ((i - 1) * (hi - lo)) \div (n - 1)]

\* [f"{v:.1f}deg" for v in np.linspace(c_min, c_max, 6)], where c_min and
\* c_max are the transformer's images of the two ends lo and hi of the axis:
\* the k-th label is fixed by the axis, the two ends and k
TickLabels(axis, lo, hi) ==
  [k \in 1..TickCount |-> [axis |-> axis, from |-> lo, to |-> hi, k |-> k]]

\* the tick block: get_xlim / get_ylim, set_xticks / set_yticks,
\* set_xticklabels / set_yticklabels
SetTicks(ax) ==
  [ax EXCEPT !.xticks = Linspace(ax.xlim[1], ax.xlim[2], TickCount),
             !.yticks = Linspace(ax.ylim[1], ax.ylim[2], TickCount),
             !.xticklabels = TickLabels("lon", ax.xlim[1], ax.xlim[2]),
             !.yticklabels = TickLabels("lat", ax.ylim[1], ax.ylim[2])]

\* a basemap call repeated after each of the two limit updates
AddBasemap_twice(ax) ==
  [ax EXCEPT !.basemap = Append(Append(@, [xlim |-> ax.xlim, ylim |-> ax.ylim]),
                                [xlim |-> ax.xlim, ylim |-> ax.ylim])]

\* ctx.add_basemap(ax, ..): the tile service reads the limits the axes has
\* at that moment
AddBasemap(ax) ==
  [ax EXCEPT !.basemap = Append(@, [xlim |-> ax.xlim, ylim |-> ax.ylim])]

\* a padding taken from the upper bound instead of the width
PadOf_upper(lo, hi, pad) == (hi * pad[1]) \div pad[2]

\* (hi - lo) * fraction
PadOf(lo, hi, pad) == ((hi - lo) * pad[1]) \div pad[2]

\* set_xlim(xmin - x_pad, xmax + x_pad); set_ylim(ymin - y_pad, ymax + y_pad)
SetPaddedLimits(ax, xmin, xmax, ymin, ymax, pad) ==
  [ax EXCEPT !.xlim = <<xmin - PadOf(xmin, xmax, pad), xmax + PadOf(xmin, xmax, pad)>>,
             !.ylim = <<ymin - PadOf(ymin, ymax, pad), ymax + PadOf(ymin, ymax, pad)>>]

\* a bounds update that overwrites the running box with the feature's box
UpdateBounds_overwrite(ext, f) == f

\* a bounds update that keeps the first box and never widens it
UpdateBounds_keep(ext, f) ==
  [xmin |-> IF ext.xmin = None THEN f.xmin ELSE ext.xmin,
   xmax |-> IF ext.xmax = None THEN f.xmax ELSE ext.xmax,
   ymin |-> IF ext.ymin = None THEN f.ymin ELSE ext.ymin,
   ymax |-> IF ext.ymax = None THEN f.ymax ELSE ext.ymax]

\* a bounds update that takes the min where the max belongs on _xmax
UpdateBounds_minmax(ext, f) ==
  [xmin |-> IF ext.xmin = None THEN f.xmin ELSE PyMin(ext.xmin, f.xmin),
   xmax |-> IF ext.xmax = None THEN f.xmax ELSE PyMin(ext.xmax, f.xmax),
   ymin |-> IF ext.ymin = None THEN f.ymin ELSE PyMin(ext.ymin, f.ymin),
   ymax |-> IF ext.ymax = None THEN f.ymax ELSE PyMax(ext.ymax, f.ymax)]

\* the bounds update: each attribute is the feature's bound when it is
\* None, else the min / max of the attribute and the feature's bound
UpdateBounds(ext, f) ==
  [xmin |-> IF ext.xmin = None THEN f.xmin ELSE PyMin(ext.xmin, f.xmin),
   xmax |-> IF ext.xmax = None THEN f.xmax ELSE PyMax(ext.xmax, f.xmax),
   ymin |-> IF ext.ymin = None THEN f.ymin ELSE PyMin(ext.ymin, f.ymin),
   ymax |-> IF ext.ymax = None THEN f.ymax ELSE PyMax(ext.ymax, f.ymax)]

\* the history of merged feature boxes kept beside the bounds update
Remember(merged, f) == IF IsBox(f) THEN merged \cup {f} ELSE merged

\* ----------------------------------------------------------- operations
\* Each operation maps the axes it is given (ax0; created = fig or ax was
\* None, so plt.subplots() makes the axes) to the outcome of the call:
\* result "ok" or the exception that leaves the function, figure = TRUE when
\* plt.subplots() ran, and the axes as the call leaves it.

\* an overlay test that never combines with the current limits
Overlaying_never(ax) == FALSE

\* curr_xlim != (0.0, 1.0) or curr_ylim != (0.0, 1.0)
Overlaying(ax) == ax.xlim /= DefaultLim \/ ax.ylim /= DefaultLim

\* an attribute read that falls back to None (getattr(ax, "_xmin", None))
HasBounds_default(ax) == TRUE

\* reading ax._xmin ..: the attributes exist only on an axes that
\* plot_route or plot_trajectory created
HasBounds(ax) == ax.hasExt

\* get_xlim / get_ylim of an Axes do not raise, so the except branch of
\* the limit combination is never taken and has no counterpart here.
plot_airspace(ax0, created, airspace_str) ==
  LET subset == Subset(airspace_str)
  IN IF Len(subset) < 3
     THEN [result |-> "ValueError", figure |-> FALSE, ax |-> ax0]
     ELSE
       LET ax1 == IF created THEN Subplots ELSE ax0
           ax2 == [ax1 EXCEPT !.drawn = @ + 1]
           f == total_bounds(subset)
           overlay == Overlaying(ax2)
           xmin == IF overlay /\ ax2.xlim[1] < f.xmin.v THEN ax2.xlim[1] ELSE f.xmin.v
           xmax == IF overlay /\ ax2.xlim[2] > f.xmax.v THEN ax2.xlim[2] ELSE f.xmax.v
           ymin == IF overlay /\ ax2.ylim[1] < f.ymin.v THEN ax2.ylim[1] ELSE f.ymin.v
           ymax == IF overlay /\ ax2.ylim[2] > f.ymax.v THEN ax2.ylim[2] ELSE f.ymax.v
           ax3 == SetPaddedLimits(ax2, xmin, xmax, ymin, ymax, PadAirspace)
           ax4 == AddBasemap(ax3)
       IN [result |-> "ok", figure |-> created, ax |-> SetTicks(ax4)]

plot_route(ax0, created, pts) ==
  LET ax1 == IF created THEN [Subplots EXCEPT !.hasExt = TRUE, !.ext = EmptyExtent]
             ELSE ax0
  IN IF LineStringRaises(pts)
     THEN [result |-> "ValueError", figure |-> created, ax |-> ax1]
     ELSE
       LET ax2 == [ax1 EXCEPT !.drawn = @ + (IF Len(pts) = 0 THEN 0 ELSE 1)]
       IN IF ~HasBounds(ax2)
          THEN [result |-> "AttributeError", figure |-> created, ax |-> ax2]
          ELSE
            LET f == total_bounds(pts)
                ax3 == [ax2 EXCEPT !.ext = UpdateBounds(@, f),
                                   !.merged = Remember(@, f)]
                e == ax3.ext
            IN IF ~IsBox(e)
               THEN [result |-> "ValueError", figure |-> created, ax |-> ax3]
               ELSE
                 LET ax4 == SetPaddedLimits(ax3, e.xmin.v, e.xmax.v, e.ymin.v, e.ymax.v, PadRoute)
                     ax5 == AddBasemap(ax4)
                     ax6 == SetPaddedLimits(ax5, e.xmin.v, e.xmax.v, e.ymin.v, e.ymax.v, PadRoute)
                     ax7 == SetTicks(ax6)
                 IN [result |-> "ok", figure |-> created,
                     ax |-> [ax7 EXCEPT !.title = "Routes"]]

plot_trajectory(ax0, created, pts) ==
  LET ax1 == IF created THEN [Subplots EXCEPT !.hasExt = TRUE, !.ext = EmptyExtent]
             ELSE ax0
  IN IF LineStringRaises(pts)
     THEN [result |-> "ValueError", figure |-> created, ax |-> ax1]
     ELSE
       LET ax2 == [ax1 EXCEPT !.drawn = @ + (IF Len(pts) = 0 THEN 0 ELSE 1)]
       IN IF ~HasBounds(ax2)
          THEN [result |-> "AttributeError", figure |-> created, ax |-> ax2]
          ELSE
            LET f == total_bounds(pts)
                ax3 == [ax2 EXCEPT !.ext = UpdateBounds(@, f),
                                   !.merged = Remember(@, f)]
                e == ax3.ext
            IN IF ~IsBox(e)
               THEN [result |-> "ValueError", figure |-> created, ax |-> ax3]
               ELSE
                 LET ax4 == SetPaddedLimits(ax3, e.xmin.v, e.xmax.v, e.ymin.v, e.ymax.v, PadTrajectory)
                     ax5 == AddBasemap(ax4)
                     ax6 == SetTicks(ax5)
                 IN [result |-> "ok", figure |-> created,
                     ax |-> [ax6 EXCEPT !.title = "Aircraft Trajectories"]]

\* pts: the rows of df_events with the flight_id asked for.  The axes is
\* ax_map; the vertical profile ax_vert is not a map and is left out.
plot_flight_trajectory_events(pts) ==
  IF Len(pts) = 0
  THEN [result |-> "None", figure |-> FALSE, ax |-> NoAxes]
  ELSE IF LineStringRaises(pts)
  THEN [result |-> "ValueError", figure |-> FALSE, ax |-> NoAxes]
  ELSE
    LET ax1 == [Subplots EXCEPT !.drawn = 2]
        ax2 == AddBasemap(ax1)
        f == total_bounds(pts)
        ax3 == SetPaddedLimits(ax2, f.xmin.v, f.xmax.v, f.ymin.v, f.ymax.v, PadEvents)
        ax4 == SetTicks(ax3)
    IN [result |-> "ok", figure |-> TRUE,
        ax |-> [ax4 EXCEPT !.title = "Horizontal Trajectory"]]

\* ---------------------------------------------------------------- calls
\* A call is made on a new axes (target 0: fig / ax left None) or on an
\* axes an earlier call returned.  An axes made by a call that raises is
\* not returned to the caller and cannot be passed to a later call.
New == 0

FreeSlots == {s \in Surfaces : ~surf[s].live}

Targets == {s \in Surfaces : surf[s].live} \cup (IF FreeSlots = {} THEN {} ELSE {New})

SlotOf(target) == IF target = New THEN MinOf(FreeSlots) ELSE target

AxesOf(target) == IF target = New THEN NoAxes ELSE surf[target]

Call(op, target, arg, pts, r) ==
  /\ ncalls < MaxCalls
  /\ ncalls' = ncalls + 1
  /\ nfigs' = nfigs + (IF r.figure THEN 1 ELSE 0)
  /\ surf' = IF r.result = "ok"
             THEN [surf EXCEPT ![SlotOf(target)] = [r.ax EXCEPT !.lastop = op]]
             ELSE IF target /= New
             THEN [surf EXCEPT ![target] = r.ax]
             ELSE surf
  /\ last' = [op |-> op, created |-> (target = New), surf |-> SlotOf(target),
              arg |-> arg, pts |-> pts, result |-> r.result]

Init ==
  /\ surf = [s \in Surfaces |-> NoAxes]
  /\ nfigs = 0
  /\ ncalls = 0
  /\ last = [op |-> "none", created |-> FALSE, surf |-> 1, arg |-> "",
             pts |-> <<>>, result |-> "ok"]

PlotAirspace ==
  \E target \in Targets, airspace_str \in AirspaceInputs :
    Call("plot_airspace", target, airspace_str, Subset(airspace_str),
         plot_airspace(AxesOf(target), target = New, airspace_str))

PlotRoute ==
  \E target \in Targets, pts \in RouteInputs :
    Call("plot_route", target, "", pts,
         plot_route(AxesOf(target), target = New, pts))

PlotTrajectory ==
  \E target \in Targets, pts \in TrajectoryInputs :
    Call("plot_trajectory", target, "", pts,
         plot_trajectory(AxesOf(target), target = New, pts))

PlotFlightTrajectoryEvents ==
  \E pts \in EventInputs :
    /\ FreeSlots /= {}
    /\ Call("plot_flight_trajectory_events", New, "", pts,
            plot_flight_trajectory_events(pts))

Next == PlotAirspace \/ PlotRoute \/ PlotTrajectory \/ PlotFlightTrajectoryEvents

Spec == Init /\ [][Next]_vars

\* ============================================================== claims
\* a box with the whole-unit bounds x:[x0, x1], y:[y0, y1]
Box(x0, x1, y0, y1) ==
  [xmin |-> Num(Scale * x0), xmax |-> Num(Scale * x1),
   ymin |-> Num(Scale * y0), ymax |-> Num(Scale * y1)]

\* the smallest box around a non-empty set of boxes
Hull(M) ==
  [xmin |-> Num(MinOf({b.xmin.v : b \in M})), xmax |-> Num(MaxOf({b.xmax.v : b \in M})),
   ymin |-> Num(MinOf({b.ymin.v : b \in M})), ymax |-> Num(MaxOf({b.ymax.v : b \in M}))]

\* box a contains box b
Contains(a, b) ==
  /\ a.xmin.v <= b.xmin.v /\ b.xmax.v <= a.xmax.v
  /\ a.ymin.v <= b.ymin.v /\ b.ymax.v <= a.ymax.v

LineOps == {"plot_route", "plot_trajectory"}

\* the step is a call that returned normally
Returned == ncalls' = ncalls + 1 /\ last'.result = "ok"

\* the axes the call of this step started from
Before == IF last'.created THEN Subplots ELSE surf[last'.surf]

\* C1: a plot_route / plot_trajectory call that merges a feature box f into
\* the extent state sets the state to f when the state was empty (all four
\* bounds None), and otherwise to the pointwise min (x_min, y_min) and max
\* (x_max, y_max) of the old state and f; merging {x:[0,10], y:[0,5]} and
\* then {x:[5,15], y:[-2,3]} from empty gives {x:[0,15], y:[-2,5]}.
C1_Merge ==
  [][ (Returned /\ last'.op \in LineOps /\ Len(last'.pts) >= 2) =>
      LET old == IF last'.created THEN EmptyExtent ELSE surf[last'.surf].ext
          new == surf'[last'.surf].ext
          f == total_bounds(last'.pts)
      IN /\ old = EmptyExtent => new = f
         /\ old /= EmptyExtent =>
              /\ new.xmin = Num(MinOf({old.xmin.v, f.xmin.v}))
              /\ new.xmax = Num(MaxOf({old.xmax.v, f.xmax.v}))
              /\ new.ymin = Num(MinOf({old.ymin.v, f.ymin.v}))
              /\ new.ymax = Num(MaxOf({old.ymax.v, f.ymax.v}))
         /\ (old = Box(0, 10, 0, 5) /\ f = Box(5, 15, -2, 3)) => new = Box(0, 15, -2, 5)
    ]_vars

\* a second call has merged {x:[5,15], y:[-2,3]} into {x:[0,10], y:[0,5]}
C1_Witness ==
  /\ last.op \in LineOps /\ last.result = "ok" /\ ~last.created
  /\ last.pts = RouteB
  /\ surf[last.surf].merged = {Box(0, 10, 0, 5), Box(5, 15, -2, 3)}
  /\ surf[last.surf].ext = Box(0, 15, -2, 5)

\* C2: the extent state of a surface is fixed by the set of feature boxes
\* merged into it, whatever the order of the calls; two surfaces that got
\* the same boxes, and whose last call was the same function, have the same
\* extent and the same axis limits.
C2_OrderIndependent ==
  /\ \A s \in Surfaces :
       (surf[s].live /\ surf[s].merged /= {}) => surf[s].ext = Hull(surf[s].merged)
  /\ \A s, t \in Surfaces :
       (/\ surf[s].live /\ surf[t].live
        /\ surf[s].merged /= {} /\ surf[s].merged = surf[t].merged
        /\ surf[s].lastop \in LineOps /\ surf[s].lastop = surf[t].lastop)
       => /\ surf[s].ext = surf[t].ext
          /\ surf[s].xlim = surf[t].xlim /\ surf[s].ylim = surf[t].ylim

\* two surfaces hold the same two boxes, merged in opposite orders (the
\* first basemap call of each saw a different window)
C2_Witness ==
  \E s, t \in Surfaces :
    /\ s /= t /\ surf[s].live /\ surf[t].live
    /\ surf[s].merged = {Box(0, 10, 0, 5), Box(5, 15, -2, 3)}
    /\ surf[t].merged = surf[s].merged
    /\ surf[s].lastop \in LineOps /\ surf[s].lastop = surf[t].lastop
    /\ Len(surf[s].basemap) = 2 /\ Len(surf[t].basemap) = 2
    /\ surf[s].basemap[1] /= surf[t].basemap[1]

\* the limits of axes a contain the box b
LimitsContain(a, b) ==
  /\ a.xlim[1] <= b.xmin.v /\ b.xmax.v <= a.xlim[2]
  /\ a.ylim[1] <= b.ymin.v /\ b.ymax.v <= a.ylim[2]

\* C10: on a surface created by plot_route / plot_trajectory, after each
\* call the accumulated extent contains the box of every feature merged so
\* far, the axis limits contain the accumulated extent, and no bound of the
\* extent ever moves inward.
C10_NeverPushedOut ==
  [][ \A s \in Surfaces :
        (surf'[s].live /\ surf'[s].hasExt) =>
          /\ \A b \in surf'[s].merged : Contains(surf'[s].ext, b)
          /\ surf'[s].merged /= {} => LimitsContain(surf'[s], surf'[s].ext)
          /\ (surf[s].live /\ IsBox(surf[s].ext)) =>
               /\ IsBox(surf'[s].ext) /\ Contains(surf'[s].ext, surf[s].ext)
               /\ surf[s].merged \subseteq surf'[s].merged
    ]_vars

\* a surface holds three features, the later ones reaching outside the
\* first
C10_Witness ==
  \E s \in Surfaces :
    /\ surf[s].live /\ surf[s].hasExt
    /\ Cardinality(surf[s].merged) = 3
    /\ Len(surf[s].basemap) = 3
    /\ surf[s].ext = Box(0, 15, -2, 5)

\* the limits of axes a are the box e padded on each side of each axis by
\* pad x (max - min) of that axis
PaddedBy(a, e, pad) ==
  /\ pad[2] * (e.xmin.v - a.xlim[1]) = pad[1] * (e.xmax.v - e.xmin.v)
  /\ pad[2] * (a.xlim[2] - e.xmax.v) = pad[1] * (e.xmax.v - e.xmin.v)
  /\ pad[2] * (e.ymin.v - a.ylim[1]) = pad[1] * (e.ymax.v - e.ymin.v)
  /\ pad[2] * (a.ylim[2] - e.ymax.v) = pad[1] * (e.ymax.v - e.ymin.v)

PadFractionOf(op) == IF op = "plot_route" THEN <<1, 5>> ELSE <<3, 10>>

\* the general part of C3, for the call recorded in last
ViewWindowDerived ==
  (last.op \in LineOps /\ last.result = "ok") =>
    LET a == surf[last.surf]
    IN /\ PaddedBy(a, a.ext, PadFractionOf(last.op))
       /\ SetPaddedLimits(a, a.ext.xmin.v, a.ext.xmax.v, a.ext.ymin.v, a.ext.ymax.v,
                          <<0, 1>>).xlim = <<a.ext.xmin.v, a.ext.xmax.v>>
       /\ SetPaddedLimits(a, a.ext.xmin.v, a.ext.xmax.v, a.ext.ymin.v, a.ext.ymax.v,
                          <<0, 1>>).ylim = <<a.ext.ymin.v, a.ext.ymax.v>>
       /\ a.ext.xmin = a.ext.xmax => a.xlim[1] = a.xlim[2]
       /\ a.ext.ymin = a.ext.ymax => a.ylim[1] = a.ylim[2]

MapOps == {"plot_airspace", "plot_route", "plot_trajectory"}

\* C7: every plot_airspace / plot_route / plot_trajectory call that returns
\* invokes the basemap exactly once, after the axis limits were set to the
\* padded window of the updated extent (the window the call leaves); a call
\* that raises invokes it not at all, and no call touches the basemap of
\* another surface.  So N successful calls give N invocations.
C7_BasemapOnce ==
  [][ (ncalls' = ncalls + 1 /\ last'.op \in MapOps) =>
      LET s == last'.surf
          a == Before
          b == surf'[s]
      IN /\ \A t \in Surfaces \ {s} : surf'[t].basemap = surf[t].basemap
         /\ last'.result /= "ok" => surf'[s].basemap = surf[s].basemap
         /\ last'.result = "ok" =>
              /\ Len(b.basemap) = Len(a.basemap) + 1
              /\ SubSeq(b.basemap, 1, Len(a.basemap)) = a.basemap
              /\ b.basemap[Len(b.basemap)] = [xlim |-> b.xlim, ylim |-> b.ylim]
              /\ last'.op \in LineOps =>
                   PaddedBy(b.basemap[Len(b.basemap)], b.ext, PadFractionOf(last'.op))
    ]_vars

\* three successful calls on one surface gave three basemap calls, each on
\* a different window
C7_Witness ==
  \E s \in Surfaces :
    /\ surf[s].live /\ Len(surf[s].basemap) = 3 /\ surf[s].lastop = "plot_route"
    /\ surf[s].basemap[1] /= surf[s].basemap[2]
    /\ surf[s].basemap[2] /= surf[s].basemap[3]
    /\ last.surf = s /\ last.result = "ok" /\ ncalls = 3

\* t holds TickCount positions evenly spaced from lo to hi, both included
EvenTicks(t, lo, hi) ==
  /\ Len(t) = TickCount
  /\ t[1] = lo /\ t[TickCount] = hi
  /\ \A i \in 1..TickCount : (TickCount - 1) * (t[i] - lo) = (i - 1) * (hi - lo)

\* C8: after every successful plotting call each axis of the map has exactly
\* 6 tick positions, evenly spaced from one end of the current view window
\* to the other (both included), and exactly 6 labels, whatever the size of
\* the window.
C8_TickCount ==
  \A s \in Surfaces :
    surf[s].live =>
      /\ EvenTicks(surf[s].xticks, surf[s].xlim[1], surf[s].xlim[2])
      /\ EvenTicks(surf[s].yticks, surf[s].ylim[1], surf[s].ylim[2])
      /\ Len(surf[s].xticklabels) = 6 /\ Len(surf[s].yticklabels) = 6

\* one surface has a zero-width window and another a window of positive
\* width, made by the OPDI event plot
C8_Witness ==
  \E s, t \in Surfaces :
    /\ surf[s].live /\ surf[s].xlim[1] = surf[s].xlim[2]
    /\ Len(surf[s].xticks) = 6
    /\ surf[t].live /\ surf[t].lastop = "plot_flight_trajectory_events"
    /\ surf[t].xticks[1] < surf[t].xticks[2]

C6_TooFewPointsRejected ==
  [][ ncalls' = ncalls + 1 =>
      /\ (last'.op = "plot_airspace" /\ Len(last'.pts) < 3) =>
           /\ last'.result = "ValueError"
           /\ nfigs' = nfigs /\ surf' = surf
      /\ (last'.op \in LineOps /\ Len(last'.pts) < 1) =>
           last'.result /= "ok"
    ]_vars

====
